---- MODULE Spec2Model ----
(***************************************************************************)
(* config-stash: Config (src/config_stash/config.py) and the loaders       *)
(* (src/config_stash/loaders.py) over one process environment.             *)
(*                                                                         *)
(* Python strings are sequences of one-character strings, so that          *)
(* str.strip, str.split, str.startswith and the f-string join of           *)
(* _load_yaml_data are computed character by character.                    *)
(* A value is a record [t, s, m]:                                          *)
(*   t = "str"  : a Python str with text s (m = <<>>), or, when s = "{",   *)
(*                the text str(d) of the dict whose items are m;           *)
(*   t = "int"  : a non-string scalar whose text is s;                     *)
(*   t = "dict" : a Python dict, m its items <<key, value>> in insertion   *)
(*                order.                                                   *)
(* The Config itself, os.environ and YamlLoader.data are functions from    *)
(* key to value (nothing iterates them in an order that matters).          *)
(***************************************************************************)
EXTENDS Integers, Sequences, FiniteSets, TLC

(* ---------------- bounds ---------------- *)

MaxOps == 3

(* ---------------- strings ---------------- *)

NoName == << >>

ENV_PREFIX == <<"E", "N", "V", ".">>

VAULT_PREFIX == <<"V", "A", "U", "L", "T", ".">>

Chars(p) == {p[i] : i \in DOMAIN p}

StartsWith(s, p) ==
    /\ Len(p) <= Len(s)
    /\ SubSeq(s, 1, Len(p)) = p

RECURSIVE LStrip(_, _)
LStrip(s, chars) ==
    IF s # << >> /\ Head(s) \in chars THEN LStrip(Tail(s), chars) ELSE s

RECURSIVE RStrip(_, _)
RStrip(s, chars) ==
    IF s # << >> /\ s[Len(s)] \in chars
    THEN RStrip(SubSeq(s, 1, Len(s) - 1), chars)
    ELSE s

(* str.strip(p): removes from both ends every character that occurs in p *)
Strip(s, p) == RStrip(LStrip(s, Chars(p)), Chars(p))

RECURSIVE Split(_)
Split(s) ==
    IF \E i \in DOMAIN s : s[i] = "."
    THEN LET i == CHOOSE j \in DOMAIN s :
                      /\ s[j] = "."
                      /\ \A h \in 1..(j - 1) : s[h] # "."
         IN  <<SubSeq(s, 1, i - 1)>> \o Split(SubSeq(s, i + 1, Len(s)))
    ELSE <<s>>

(* ---------------- values ---------------- *)

StrV(s) == [t |-> "str", s |-> s, m |-> << >>]

IntV(s) == [t |-> "int", s |-> s, m |-> << >>]

DictV(items) == [t |-> "dict", s |-> << >>, m |-> items]

EmptyDict == DictV(<< >>)

(* str(value) *)
Str(v) ==
    IF v.t = "dict" THEN [t |-> "str", s |-> <<"{">>, m |-> v.m]
    ELSE IF v.t = "str" THEN v
    ELSE StrV(v.s)

DictHas(d, k) == \E i \in DOMAIN d.m : d.m[i][1] = k

DictGet(d, k) == d.m[CHOOSE i \in DOMAIN d.m : d.m[i][1] = k][2]

DictPut(d, k, v) ==
    IF DictHas(d, k)
    THEN DictV([i \in DOMAIN d.m |-> IF d.m[i][1] = k THEN <<k, v>> ELSE d.m[i]])
    ELSE DictV(Append(d.m, <<k, v>>))

EmptyMap == << >>

Put(f, k, v) == [x \in (DOMAIN f) \cup {k} |-> IF x = k THEN v ELSE f[x]]

(* ---------------- the secret store behind the fetcher ---------------- *)

VaultPath == <<"s", "/", "p">>

NoErr == "none"

(* vault_fetcher.get_value_from_vault(path, key): the secret of a known    *)
(* path, KeyError for any other path (config.py, load_from_vault Raises)   *)
FetcherKnows(path, key) == path = VaultPath

FetcherValue(path, key) == StrV(<<"$">> \o key)

(* ---------------- Config (config.py) ---------------- *)
(* A Config call threads st = [store, env, fetcher, calls, err]: the dict, *)
(* os.environ, self.vault_fetcher (TRUE when one was given), the calls     *)
(* made to the fetcher, and the exception that ended the call.             *)

Raise(st, e) == [st EXCEPT !.err = e]

(* Config.__setitem__ *)
SetItem(st, key, value) ==
    [st EXCEPT !.store = Put(st.store, key, value),
               !.env = Put(st.env, key, Str(value))]

(* load_from_env, had it ignored custom_key_name *)
LoadFromEnvKeepsKey(st, key, custom_key_name) ==
    IF key \notin DOMAIN st.env THEN Raise(st, "KeyError")
    ELSE SetItem(st, key, st.env[key])

(* Config.load_from_env *)
LoadFromEnv(st, key, custom_key_name) ==
    IF key \notin DOMAIN st.env THEN Raise(st, "KeyError")
    ELSE IF custom_key_name = NoName
         THEN SetItem(st, key, st.env[key])
         ELSE SetItem(st, custom_key_name, st.env[key])

(* load_many_keys_from_env, had it looked for an unset key before storing *)
RECURSIVE LoadManyChecksFirst(_, _)
LoadManyChecksFirst(st, keys) ==
    IF \E i \in DOMAIN keys : keys[i] \notin DOMAIN st.env
    THEN Raise(st, "KeyError")
    ELSE IF keys = << >> THEN st
         ELSE LoadManyChecksFirst(SetItem(st, Head(keys), st.env[Head(keys)]),
                                  Tail(keys))

(* Config.load_many_keys_from_env *)
RECURSIVE LoadManyKeysFromEnv(_, _)
LoadManyKeysFromEnv(st, keys) ==
    IF keys = << >> THEN st
    ELSE IF Head(keys) \notin DOMAIN st.env THEN Raise(st, "KeyError")
         ELSE LoadManyKeysFromEnv(SetItem(st, Head(keys), st.env[Head(keys)]),
                                  Tail(keys))

AnyPrefix(key, prefixes) ==
    \E i \in DOMAIN prefixes : StartsWith(key, prefixes[i])

(* the loop body of load_prefixed_env_vars over the environment keys todo *)
RECURSIVE PrefixedLoop(_, _, _)
PrefixedLoop(st, todo, allowed_prefixes) ==
    IF todo = {} THEN st
    ELSE LET key == CHOOSE k \in todo : TRUE
             nxt == IF AnyPrefix(key, allowed_prefixes) /\ key \notin DOMAIN st.store
                    THEN SetItem(st, key, st.env[key])
                    ELSE st
         IN  PrefixedLoop(nxt, todo \ {key}, allowed_prefixes)

(* load_prefixed_env_vars, had it lacked the "key not in self" test *)
LoadPrefixedOverwrites(st, allowed_prefixes) ==
    IF allowed_prefixes = << >> THEN Raise(st, "TypeError")
    ELSE [st EXCEPT !.store =
            [k \in (DOMAIN st.store) \cup
                   {e \in DOMAIN st.env : AnyPrefix(e, allowed_prefixes)} |->
                IF k \in DOMAIN st.env /\ AnyPrefix(k, allowed_prefixes)
                THEN st.env[k] ELSE st.store[k]]]

(* load_prefixed_env_vars, had it lacked the "not allowed_prefixes" test *)
LoadPrefixedUnguarded(st, allowed_prefixes) ==
    PrefixedLoop(st, DOMAIN st.env, allowed_prefixes)

(* Config.load_prefixed_env_vars; None and [] are both "not allowed_prefixes" *)
LoadPrefixedEnvVars(st, allowed_prefixes) ==
    IF allowed_prefixes = << >> THEN Raise(st, "TypeError")
    ELSE PrefixedLoop(st, DOMAIN st.env, allowed_prefixes)

(* Config.load_from_vault; with no fetcher, None.get_value_from_vault is   *)
(* an AttributeError                                                      *)
LoadFromVault(st, vault_secret_path, vault_secret_key, custom_key_name) ==
    IF ~st.fetcher THEN Raise(st, "AttributeError")
    ELSE LET called == [st EXCEPT !.calls =
                           Append(@, <<vault_secret_path, vault_secret_key>>)]
             value == FetcherValue(vault_secret_path, vault_secret_key)
         IN  IF ~FetcherKnows(vault_secret_path, vault_secret_key)
             THEN Raise(called, "KeyError")
             ELSE IF custom_key_name # NoName
                     /\ custom_key_name \notin DOMAIN called.store
                  THEN SetItem(called, custom_key_name, value)
                  ELSE SetItem(called, vault_secret_key, value)

(* Config._load_env_variable *)
LoadEnvVariable(st, yaml_value, yaml_key) ==
    LoadFromEnv(st, Strip(yaml_value, ENV_PREFIX), yaml_key)

(* Config._load_vault_secret: the two-name unpacking is a ValueError       *)
(* unless the split has exactly two parts                                  *)
LoadVaultSecret(st, yaml_value, yaml_key) ==
    LET parts == Split(Strip(yaml_value, VAULT_PREFIX))
    IN  IF Len(parts) # 2 THEN Raise(st, "ValueError")
        ELSE LoadFromVault(st, parts[1], parts[2], yaml_key)

(* current_dict = current_dict.setdefault(k, {}) ... current_dict[last] =  *)
(* value, below the first level: d with value set at the path keys, or     *)
(* the exception a str or a number on the path raises                      *)
RECURSIVE NestedSet(_, _, _)
NestedSet(d, keys, value) ==
    IF d.t # "dict"
    THEN [err |-> IF Len(keys) = 1 THEN "TypeError" ELSE "AttributeError",
          d |-> d]
    ELSE IF Len(keys) = 1
         THEN [err |-> NoErr, d |-> DictPut(d, keys[1], value)]
         ELSE LET child == IF DictHas(d, keys[1]) THEN DictGet(d, keys[1])
                           ELSE EmptyDict
                  r == NestedSet(child, Tail(keys), value)
              IN  IF r.err # NoErr THEN [err |-> r.err, d |-> d]
                  ELSE [err |-> NoErr, d |-> DictPut(d, keys[1], r.d)]

JoinKey(parent_key, key) ==
    IF parent_key # NoName THEN parent_key \o <<".">> \o key ELSE key

(* Config._set_nested_dict: the last assignment is Config.__setitem__ only *)
(* when the path has one component; dict.setdefault and the assignment     *)
(* into a nested dict touch no environment variable                        *)
SetNestedDict(st, key, value) ==
    LET keys == Split(key)
    IN  IF Len(keys) = 1 THEN SetItem(st, keys[1], value)
        ELSE LET cur == IF keys[1] \in DOMAIN st.store
                        THEN st.store[keys[1]] ELSE EmptyDict
                 r == NestedSet(cur, Tail(keys), value)
             IN  IF r.err # NoErr THEN Raise(st, r.err)
                 ELSE [st EXCEPT !.store = Put(st.store, keys[1], r.d)]

(* Config._load_yaml_data, from the i-th item of data on *)
RECURSIVE LoadYamlData(_, _, _, _)
LoadYamlData(st, data, parent_key, i) ==
    IF st.err # NoErr \/ i > Len(data) THEN st
    ELSE LET key == data[i][1]
             value == data[i][2]
             nested_key == JoinKey(parent_key, key)
             inner == LoadYamlData(st, value.m, nested_key, 1)
             nxt ==
                 IF value.t = "dict"
                 THEN IF inner.err # NoErr THEN inner
                      ELSE SetNestedDict(inner, nested_key, value)
                 ELSE IF value.t = "str" /\ StartsWith(value.s, ENV_PREFIX)
                      THEN LoadEnvVariable(st, value.s, key)
                 ELSE IF value.t = "str" /\ StartsWith(value.s, VAULT_PREFIX)
                      THEN LoadVaultSecret(st, value.s, key)
                 ELSE IF key \notin DOMAIN st.store
                      THEN SetItem(st, key, value)
                      ELSE st
         IN  LoadYamlData(nxt, data, parent_key, i + 1)

(* what open(filepath) finds when the file does not exist *)
NoSuchFile == [exists |-> FALSE, doc |-> << >>]

(* a file that yaml.safe_load parses to doc *)
File(doc) == [exists |-> TRUE, doc |-> doc]

(* load_from_yaml_file, had its except clause emptied the dict (self.clear()) *)
LoadFromYamlFileClearing(st, file) ==
    IF ~file.exists THEN Raise(st, "FileNotFoundError")
    ELSE LET r == LoadYamlData(st, file.doc, NoName, 1)
         IN  IF r.err = "ValueError" THEN [r EXCEPT !.store = EmptyMap] ELSE r

(* Config.load_from_yaml_file: the except clause re-raises with the same   *)
(* exception type                                                          *)
LoadFromYamlFile(st, file) ==
    IF ~file.exists THEN Raise(st, "FileNotFoundError")
    ELSE LoadYamlData(st, file.doc, NoName, 1)

(* ---------------- the loaders (loaders.py) ---------------- *)
(* A YamlLoader call threads yl = [data, env, calls, err]: self.data,      *)
(* os.environ (only read), the calls made to the fetcher, the exception.   *)

(* EnvLoader.load *)
EnvLoaderLoad(environ, key) ==
    IF key \notin DOMAIN environ
    THEN [err |-> "KeyError", value |-> StrV(<< >>)]
    ELSE [err |-> NoErr, value |-> environ[key]]

(* PrefixedEnvLoader.load, had it tested "prefix in key" *)
PrefixedLoadAnywhere(environ, prefixes) ==
    IF prefixes = << >> THEN [err |-> "TypeError", envvars |-> EmptyMap]
    ELSE [err |-> NoErr,
          envvars |-> [k \in {e \in DOMAIN environ :
                                \E i \in DOMAIN prefixes, j \in DOMAIN e :
                                    StartsWith(SubSeq(e, j, Len(e)), prefixes[i])}
                       |-> environ[k]]]

(* PrefixedEnvLoader.load *)
PrefixedEnvLoaderLoad(environ, prefixes) ==
    IF prefixes = << >> THEN [err |-> "TypeError", envvars |-> EmptyMap]
    ELSE [err |-> NoErr,
          envvars |-> [k \in {e \in DOMAIN environ : AnyPrefix(e, prefixes)}
                       |-> environ[k]]]

(* VaultLoader.load *)
VaultLoaderLoad(yl, vault_secret_path, vault_secret_key, vault_fetcher) ==
    IF ~vault_fetcher THEN [err |-> "AttributeError", calls |-> yl.calls]
    ELSE [err |-> IF FetcherKnows(vault_secret_path, vault_secret_key)
                  THEN NoErr ELSE "KeyError",
          calls |-> Append(yl.calls, <<vault_secret_path, vault_secret_key>>)]

(* YamlLoader._load_env_variable *)
YLLoadEnvVariable(yl, yaml_value, yaml_key) ==
    LET r == EnvLoaderLoad(yl.env, Strip(yaml_value, ENV_PREFIX))
    IN  IF r.err # NoErr THEN Raise(yl, r.err)
        ELSE [yl EXCEPT !.data = Put(yl.data, yaml_key, r.value)]

(* YamlLoader._load_vault_secret *)
YLLoadVaultSecret(yl, yaml_value, yaml_key, vault_fetcher) ==
    LET parts == Split(Strip(yaml_value, VAULT_PREFIX))
        r == VaultLoaderLoad(yl, parts[1], parts[2], vault_fetcher)
    IN  IF Len(parts) # 2 THEN Raise(yl, "ValueError")
        ELSE IF r.err # NoErr
             THEN [yl EXCEPT !.err = r.err, !.calls = r.calls]
             ELSE [yl EXCEPT !.calls = r.calls,
                             !.data = Put(yl.data, yaml_key,
                                          FetcherValue(parts[1], parts[2]))]

(* YamlLoader._set_nested_dict *)
YLSetNestedDict(yl, key, value) ==
    LET keys == Split(key)
    IN  IF Len(keys) = 1
        THEN [yl EXCEPT !.data = Put(yl.data, keys[1], value)]
        ELSE LET cur == IF keys[1] \in DOMAIN yl.data
                        THEN yl.data[keys[1]] ELSE EmptyDict
                 r == NestedSet(cur, Tail(keys), value)
             IN  IF r.err # NoErr THEN Raise(yl, r.err)
                 ELSE [yl EXCEPT !.data = Put(yl.data, keys[1], r.d)]

(* YamlLoader._load_yaml_data, from the i-th item of data on; the          *)
(* recursive call passes (value, nested_key) and so no fetcher             *)
RECURSIVE YLLoadYamlData(_, _, _, _, _)
YLLoadYamlData(yl, data, parent_key, vault_fetcher, i) ==
    IF yl.err # NoErr \/ i > Len(data) THEN yl
    ELSE LET key == data[i][1]
             value == data[i][2]
             nested_key == JoinKey(parent_key, key)
             inner == YLLoadYamlData(yl, value.m, nested_key, FALSE, 1)
             nxt ==
                 IF value.t = "dict"
                 THEN IF inner.err # NoErr THEN inner
                      ELSE YLSetNestedDict(inner, nested_key, value)
                 ELSE IF value.t = "str" /\ StartsWith(value.s, ENV_PREFIX)
                      THEN YLLoadEnvVariable(yl, value.s, key)
                 ELSE IF value.t = "str" /\ StartsWith(value.s, VAULT_PREFIX)
                      THEN YLLoadVaultSecret(yl, value.s, key, vault_fetcher)
                 ELSE IF key \notin DOMAIN yl.data
                      THEN [yl EXCEPT !.data = Put(yl.data, key, value)]
                      ELSE yl
         IN  YLLoadYamlData(nxt, data, parent_key, vault_fetcher, i + 1)

(* the text of a fetcher object inside f'{parent_key}.{key}': the default  *)
(* object text <module.Class ...>                                          *)
FetcherRepr == <<"<", "m", ".", "F", ">">>

(* YamlLoader.load: self._load_yaml_data(data, vault_fetcher) binds the    *)
(* fetcher to parent_key and leaves vault_fetcher at its default None      *)
YamlLoaderLoad(yl, file, vault_fetcher) ==
    IF ~file.exists THEN Raise(yl, "FileNotFoundError")
    ELSE YLLoadYamlData(yl, file.doc,
                        IF vault_fetcher THEN FetcherRepr ELSE NoName,
                        FALSE, 1)

(* ---------------- names, values and documents of the runs ---------------- *)

kUSER == <<"U", "S", "E", "R">>
kAPI == <<"A", "P", "I">>
kRM == <<"R", "M", "_", "K">>
krm == <<"r", "m", "_", "k">>
kMISS == <<"M", "I", "S", "S">>
kVER == <<"V", "E", "R">>
kSK == <<"s", "k">>
kurl == <<"u", "r", "l">>
kdb == <<"d", "b">>
kpw == <<"p", "w">>
kun == <<"u", "n">>
kport == <<"p", "o", "r", "t">>
ka == <<"a">>
kab == <<"a", ".", "b">>
kb == <<"b">>
kx == <<"x">>
ky == <<"y">>

vAlice == StrV(<<"a", "l", "i", "c", "e">>)
vOld == StrV(<<"o", "l", "d">>)
vNew == StrV(<<"n", "e", "w">>)
vStage == StrV(<<"s", "t", "a", "g", "e">>)

EnvRef(name) == StrV(ENV_PREFIX \o name)
VaultRef(tail) == StrV(VAULT_PREFIX \o tail)
GoodVaultRef == VaultRef(VaultPath \o <<".">> \o kSK)

FullEnv == (kUSER :> vAlice) @@ (kAPI :> StrV(<<"k", "1">>))
           @@ (kRM :> StrV(<<"x">>)) @@ (krm :> StrV(<<"y">>))
           @@ (kVER :> StrV(<<"2">>))

BareEnv == (kAPI :> StrV(<<"k", "1">>))

(* Config({...}) seeds the dict through dict.__init__ *)
Seeded == (kAPI :> vOld) @@ (kpw :> vOld)

InitConfigs ==
    { [store |-> EmptyMap, env |-> FullEnv, fetcher |-> TRUE],
      [store |-> Seeded, env |-> FullEnv, fetcher |-> TRUE],
      [store |-> EmptyMap, env |-> BareEnv, fetcher |-> FALSE] }

(* the scenario of the specification: a secret and an environment value *)
DocScenario == << <<kpw, GoodVaultRef>>, <<kun, EnvRef(kUSER)>> >>

(* placeholders inside a nested mapping, beside plain scalars *)
DocNested ==
    << <<kurl, vStage>>,
       <<kdb, DictV(<< <<kpw, GoodVaultRef>>, <<kun, EnvRef(kUSER)>>,
                       <<kport, IntV(<<"1", "2">>)>> >>)>> >>

(* a plain scalar and placeholders at keys a seeded store already holds *)
DocPlainOverSeed == << <<kAPI, vNew>>, <<kurl, vStage>> >>
DocEnvOverSeed == << <<kAPI, EnvRef(kUSER)>> >>
DocVaultOverSeed == << <<kpw, GoodVaultRef>> >>

(* a key with a dot beside the key it continues *)
DocDotted ==
    << <<ka, DictV(<< <<kx, IntV(<<"1">>)>> >>)>>,
       <<kab, DictV(<< <<ky, IntV(<<"2">>)>> >>)>> >>

(* two levels of nesting, then an unset variable *)
DocDeepThenUnset ==
    << <<ka, DictV(<< <<kb, DictV(<< <<kx, IntV(<<"1">>)>> >>)>>,
                      <<ky, EnvRef(kMISS)>> >>)>> >>

(* a nested key with the name of a later top-level key *)
DocShadow == << <<kdb, DictV(<< <<kurl, StrV(<<"x">>)>> >>)>>, <<kurl, vStage>> >>

(* a variable whose name begins with characters of the prefix *)
DocVersion == << <<kun, EnvRef(kVER)>> >>

(* VAULT. references with other than one dot between two names *)
VaultTails ==
    { VaultPath \o <<".">> \o kSK \o <<".">>,
      VaultPath,
      VaultPath \o <<".">> \o kSK \o <<".">> \o kx,
      <<"T", "o", ".">> \o kSK,
      <<".">> \o VaultPath \o <<".">> \o kSK }

VaultDocs == { << <<kpw, VaultRef(t)>> >> : t \in VaultTails }

Docs ==
    { << >>, DocScenario, DocNested, DocPlainOverSeed, DocEnvOverSeed,
      DocVaultOverSeed, DocDotted, DocDeepThenUnset, DocVersion,
      DocShadow } \cup VaultDocs

LoaderDocs ==
    { DocScenario, DocNested, DocDeepThenUnset, DocVersion, DocShadow,
      DocPlainOverSeed, DocEnvOverSeed }

KeyLists ==
    { <<kAPI, kRM>>, <<kAPI, kMISS, kRM>>, <<kMISS>>, <<kUSER, kAPI>> }

PrefixLists ==
    { << >>, <<<<"R", "M">>>>, <<<<"r", "m">>, <<"A">>>>, <<<<"P", "I">>>>,
      <<<<"r", "M">>, <<"a", "p", "i">>>> }

(* ---------------- the state ---------------- *)

VARIABLES
    store,          \* the Config (a dict)
    env,            \* os.environ
    vault_fetcher,  \* Config.vault_fetcher is set
    data,           \* YamlLoader.data
    op,             \* the last call
    arg,            \* its arguments
    pre,            \* store, env and data when it was made
    err,            \* the exception it raised, or NoErr
    calls,          \* the (path, key) pairs it passed to the fetcher
    ret,            \* what a loader returned
    nops            \* calls made so far

vars == <<store, env, vault_fetcher, data, op, arg, pre, err, calls, ret, nops>>

NoArg == [k |-> NoName, c |-> NoName, p |-> NoName, l |-> << >>, f |-> FALSE]

Here == [store |-> store, env |-> env, data |-> data]

St == [store |-> store, env |-> env, fetcher |-> vault_fetcher,
       calls |-> << >>, err |-> NoErr]

Yl == [data |-> data, env |-> env, calls |-> << >>, err |-> NoErr]

Init ==
    /\ \E c \in InitConfigs :
          /\ store = c.store
          /\ env = c.env
          /\ vault_fetcher = c.fetcher
    /\ data = EmptyMap
    /\ op = "init"
    /\ arg = NoArg
    /\ pre = [store |-> EmptyMap, env |-> EmptyMap, data |-> EmptyMap]
    /\ err = NoErr
    /\ calls = << >>
    /\ ret = EmptyMap
    /\ nops = 0

(* a call on the Config that ends in state r *)
ConfigCall(name, a, r) ==
    /\ nops < MaxOps
    /\ store' = r.store
    /\ env' = r.env
    /\ err' = r.err
    /\ calls' = r.calls
    /\ op' = name
    /\ arg' = a
    /\ pre' = Here
    /\ ret' = EmptyMap
    /\ nops' = nops + 1
    /\ UNCHANGED <<vault_fetcher, data>>

(* config[key] = value *)
Assign ==
    \E key \in {kAPI, kurl}, value \in {vNew, IntV(<<"8">>)} :
        ConfigCall("setitem", [NoArg EXCEPT !.k = key, !.l = <<value>>],
                   SetItem(St, key, value))

CallLoadFromEnv ==
    \E key \in {kUSER, kMISS}, custom \in {NoName, kAPI} :
        ConfigCall("load_from_env", [NoArg EXCEPT !.k = key, !.c = custom],
                   LoadFromEnv(St, key, custom))

CallLoadManyKeysFromEnv ==
    \E keys \in KeyLists :
        ConfigCall("load_many_keys_from_env", [NoArg EXCEPT !.l = keys],
                   LoadManyKeysFromEnv(St, keys))

CallLoadPrefixedEnvVars ==
    \E prefixes \in PrefixLists :
        ConfigCall("load_prefixed_env_vars", [NoArg EXCEPT !.l = prefixes],
                   LoadPrefixedEnvVars(St, prefixes))

CallLoadFromYamlFile ==
    \E file \in {File(d) : d \in Docs} \cup {NoSuchFile} :
        ConfigCall("load_from_yaml_file", [NoArg EXCEPT !.l = file.doc],
                   LoadFromYamlFile(St, file))

CallLoadFromVault ==
    \E path \in {VaultPath, <<"o">>}, custom \in {NoName, kpw} :
        ConfigCall("load_from_vault",
                   [NoArg EXCEPT !.p = path, !.k = kSK, !.c = custom],
                   LoadFromVault(St, path, kSK, custom))

(* PrefixedEnvLoader().load(prefixes) *)
CallPrefixedEnvLoader ==
    \E prefixes \in PrefixLists :
        LET r == PrefixedEnvLoaderLoad(env, prefixes)
        IN  /\ nops < MaxOps
            /\ op' = "PrefixedEnvLoader.load"
            /\ arg' = [NoArg EXCEPT !.l = prefixes]
            /\ pre' = Here
            /\ err' = r.err
            /\ ret' = r.envvars
            /\ calls' = << >>
            /\ nops' = nops + 1
            /\ UNCHANGED <<store, env, vault_fetcher, data>>

(* the one YamlLoader's load(filepath, vault_fetcher); it returns          *)
(* self.data unless it raised                                              *)
CallYamlLoader ==
    \E doc \in LoaderDocs, fetcher \in BOOLEAN :
        LET r == YamlLoaderLoad(Yl, File(doc), fetcher)
        IN  /\ nops < MaxOps
            /\ data' = r.data
            /\ op' = "YamlLoader.load"
            /\ arg' = [NoArg EXCEPT !.l = doc, !.f = fetcher]
            /\ pre' = Here
            /\ err' = r.err
            /\ ret' = IF r.err = NoErr THEN r.data ELSE EmptyMap
            /\ calls' = r.calls
            /\ nops' = nops + 1
            /\ UNCHANGED <<store, env, vault_fetcher>>

Next ==
    \/ Assign
    \/ CallLoadFromEnv
    \/ CallLoadManyKeysFromEnv
    \/ CallLoadPrefixedEnvVars
    \/ CallLoadFromYamlFile
    \/ CallLoadFromVault
    \/ CallPrefixedEnvLoader
    \/ CallYamlLoader

Spec == Init /\ [][Next]_vars

(* ---------------- vocabulary of the properties ---------------- *)

AfterPrefix(s, p) == SubSeq(s, Len(p) + 1, Len(s))

IsEnvRef(v) == v.t = "str" /\ StartsWith(v.s, ENV_PREFIX)

IsVaultRef(v) == v.t = "str" /\ StartsWith(v.s, VAULT_PREFIX)

IsPlain(v) == v.t # "dict" /\ ~IsEnvRef(v) /\ ~IsVaultRef(v)

(* name starts with prefix, character by character from the first *)
BeginsWith(name, prefix) ==
    /\ Len(prefix) <= Len(name)
    /\ \A j \in 1..Len(prefix) : name[j] = prefix[j]

Unset(keys, environ) == {i \in DOMAIN keys : keys[i] \notin DOMAIN environ}

FirstUnset(keys, environ) ==
    CHOOSE i \in Unset(keys, environ) : \A j \in Unset(keys, environ) : i <= j

(* f with the keys of ks set to their value in g, and nothing else changed *)
Overlaid(f, ks, g) ==
    [k \in (DOMAIN f) \cup ks |-> IF k \in ks THEN g[k] ELSE f[k]]

(* ---------------- C1 ---------------- *)

(* C1, as stated: a load_many_keys_from_env call with an unset key in its  *)
(* list fails and leaves the store and the environment as they were.       *)
C1_AllOrNothing ==
    (op = "load_many_keys_from_env" /\ Unset(arg.l, pre.env) # {})
        => /\ err = "KeyError"
           /\ store = pre.store
           /\ env = pre.env

(* C1, amended: the call fails with KeyError and leaves the environment    *)
(* as it was; the keys that precede the first unset key are stored with    *)
(* their environment values, and no other key is added or changed.         *)
C1_PrefixWritten ==
    (op = "load_many_keys_from_env" /\ Unset(arg.l, pre.env) # {})
        => /\ err = "KeyError"
           /\ env = pre.env
           /\ store = Overlaid(pre.store,
                               {arg.l[j] : j \in 1..(FirstUnset(arg.l, pre.env) - 1)},
                               pre.env)

C1_Witness ==
    /\ op = "load_many_keys_from_env"
    /\ err = "KeyError"
    /\ Unset(arg.l, pre.env) # {}
    /\ FirstUnset(arg.l, pre.env) > 1
    /\ FirstUnset(arg.l, pre.env) < Len(arg.l)
    /\ arg.l[1] \in DOMAIN store
    /\ arg.l[1] \notin DOMAIN pre.store

(* ---------------- C2 ---------------- *)

ConfigOps ==
    {"setitem", "load_from_env", "load_many_keys_from_env",
     "load_prefixed_env_vars", "load_from_yaml_file", "load_from_vault"}

(* a key the last call added to the store or gave another value *)
Written(K) ==
    /\ K \in DOMAIN store
    /\ (K \notin DOMAIN pre.store \/ store[K] # pre.store[K])

(* C2, as stated: after a successful load or assignment on the Config,     *)
(* every key the call wrote is in the environment with the text of its     *)
(* stored value.                                                           *)
C2_MirrorOnWrite ==
    (op \in ConfigOps /\ err = NoErr)
        => \A K \in DOMAIN store :
              Written(K) => (K \in DOMAIN env /\ env[K] = Str(store[K]))

(* ---------------- C3 ---------------- *)

VaultParts(v) == Split(AfterPrefix(v.s, VAULT_PREFIX))

(* C3, as stated: when a successful load_from_yaml_file meets, at the top  *)
(* level of the document, a key K the store already holds, a plain scalar  *)
(* leaves store[K] as it was, an ENV. placeholder makes it the value of    *)
(* the named variable and a VAULT. placeholder makes it the fetched        *)
(* secret.                                                                 *)
C3_PlaceholderOverwrites ==
    (op = "load_from_yaml_file" /\ err = NoErr)
        => \A i \in DOMAIN arg.l :
              LET K == arg.l[i][1]
                  v == arg.l[i][2]
              IN  K \in DOMAIN pre.store =>
                    /\ IsPlain(v) => store[K] = pre.store[K]
                    /\ IsEnvRef(v) =>
                          store[K] = pre.env[AfterPrefix(v.s, ENV_PREFIX)]
                    /\ IsVaultRef(v) =>
                          store[K] = FetcherValue(VaultParts(v)[1], VaultParts(v)[2])

(* ---------------- C4 ---------------- *)

RECURSIVE NoPlaceholderIn(_)
NoPlaceholderIn(v) ==
    IF v.t = "dict" THEN \A i \in DOMAIN v.m : NoPlaceholderIn(v.m[i][2])
    ELSE ~IsEnvRef(v) /\ ~IsVaultRef(v)

(* C4, as stated: after a successful load_from_yaml_file, the mapping      *)
(* stored under the key K of a nested mapping M keeps every plain scalar   *)
(* of M and holds no ENV. or VAULT. placeholder at any depth.              *)
C4_NestedResolved ==
    (op = "load_from_yaml_file" /\ err = NoErr)
        => \A i \in DOMAIN arg.l :
              LET K == arg.l[i][1]
                  M == arg.l[i][2]
              IN  (M.t = "dict" /\ K \in DOMAIN store /\ store[K].t = "dict") =>
                    /\ NoPlaceholderIn(store[K])
                    /\ \A j \in DOMAIN M.m :
                          IsPlain(M.m[j][2]) =>
                              /\ DictHas(store[K], M.m[j][1])
                              /\ DictGet(store[K], M.m[j][1]) = M.m[j][2]

(* ---------------- C5 ---------------- *)

(* C5, as stated: YamlLoader.load with a fetcher succeeds on a document    *)
(* whose top-level placeholders name set variables and secrets the fetcher *)
(* knows; it passes each (path, key) to that fetcher and returns the       *)
(* secret, and the value of each named variable, under the YAML key.       *)
C5_LoaderResolves ==
    (/\ op = "YamlLoader.load"
     /\ arg.f
     /\ arg.l = DocScenario
     /\ pre.data = EmptyMap
     /\ kUSER \in DOMAIN pre.env)
        => /\ err = NoErr
           /\ calls = << <<VaultPath, kSK>> >>
           /\ ret = (kpw :> FetcherValue(VaultPath, kSK)) @@ (kun :> pre.env[kUSER])

(* ---------------- C6 ---------------- *)

(* C6, as stated: when load_from_yaml_file on a Config with a fetcher      *)
(* meets a VAULT. value first, the text after the prefix is split on "."; *)
(* other than two parts fails with ValueError and no call to the fetcher,  *)
(* two parts are passed to the fetcher as they are.                        *)
C6_VaultReference ==
    (/\ op = "load_from_yaml_file"
     /\ vault_fetcher
     /\ arg.l # << >>
     /\ IsVaultRef(arg.l[1][2]))
        => LET parts == VaultParts(arg.l[1][2])
           IN  IF Len(parts) = 2
               THEN calls # << >> /\ calls[1] = <<parts[1], parts[2]>>
               ELSE err = "ValueError" /\ calls = << >>

(* ---------------- C7 ---------------- *)

(* C7, as stated: load_from_vault on a Config with a fetcher calls it once *)
(* with (path, key); with a custom name it writes the secret under that    *)
(* name if the store does not hold it and writes nothing otherwise; with   *)
(* no custom name it writes the secret under key.                          *)
C7_CustomNameOnly ==
    (op = "load_from_vault" /\ vault_fetcher /\ FetcherKnows(arg.p, arg.k))
        => /\ calls = << <<arg.p, arg.k>> >>
           /\ store = IF arg.c = NoName
                      THEN Overlaid(pre.store, {arg.k},
                                    arg.k :> FetcherValue(arg.p, arg.k))
                      ELSE IF arg.c \notin DOMAIN pre.store
                           THEN Overlaid(pre.store, {arg.c},
                                         arg.c :> FetcherValue(arg.p, arg.k))
                           ELSE pre.store

(* ---------------- C8 ---------------- *)

(* C8: load_prefixed_env_vars never overwrites: every key the store held   *)
(* before the call holds the same value after it, whatever the environment *)
(* holds for that key; the keys added are keys of the environment that     *)
(* were absent before.                                                     *)
C8_NeverOverwrites ==
    op = "load_prefixed_env_vars"
        => /\ \A K \in DOMAIN pre.store :
                 K \in DOMAIN store /\ store[K] = pre.store[K]
           /\ \A K \in (DOMAIN store) \ (DOMAIN pre.store) :
                 K \in DOMAIN pre.env /\ store[K] = pre.env[K]

(* a stored key matches a prefix while the environment holds another value *)
C8_Witness ==
    /\ op = "load_prefixed_env_vars"
    /\ err = NoErr
    /\ \E K \in DOMAIN pre.store :
          /\ \E i \in DOMAIN arg.l : BeginsWith(K, arg.l[i])
          /\ K \in DOMAIN pre.env
          /\ pre.env[K] # pre.store[K]

(* ---------------- C9 ---------------- *)

(* C9: load_from_env of a set variable stores its value under the custom   *)
(* name when one is given and under key otherwise; load_many_keys_from_env *)
(* with every key set stores each key's value under its own name; both     *)
(* replace a value already stored there and change no other key.           *)
C9_EnvLoadsOverwrite ==
    /\ (op = "load_from_env" /\ arg.k \in DOMAIN pre.env)
          => /\ err = NoErr
             /\ LET target == IF arg.c # NoName THEN arg.c ELSE arg.k
                IN  /\ DOMAIN store = (DOMAIN pre.store) \cup {target}
                    /\ store[target] = pre.env[arg.k]
                    /\ \A K \in (DOMAIN pre.store) \ {target} :
                          store[K] = pre.store[K]
    /\ (op = "load_many_keys_from_env" /\ Unset(arg.l, pre.env) = {})
          => /\ err = NoErr
             /\ LET targets == {arg.l[i] : i \in DOMAIN arg.l}
                IN  /\ DOMAIN store = (DOMAIN pre.store) \cup targets
                    /\ \A K \in targets : store[K] = pre.env[K]
                    /\ \A K \in (DOMAIN pre.store) \ targets :
                          store[K] = pre.store[K]

(* a custom name that the store held with another value is overwritten *)
C9_Witness ==
    /\ op = "load_from_env"
    /\ err = NoErr
    /\ arg.c # NoName
    /\ arg.c # arg.k
    /\ arg.c \in DOMAIN pre.store
    /\ pre.store[arg.c] # pre.env[arg.k]
    /\ store[arg.c] = pre.env[arg.k]

(* ---------------- C10 ---------------- *)

Matching(environ, prefixes) ==
    {K \in DOMAIN environ : \E i \in DOMAIN prefixes : BeginsWith(K, prefixes[i])}

(* C10: PrefixedEnvLoader.load with a non-empty prefix list returns, with  *)
(* no error, the mapping from exactly the environment keys that begin with *)
(* one of the prefixes to their environment values (empty when none        *)
(* does); load_prefixed_env_vars on an empty store leaves that mapping in  *)
(* the store.                                                              *)
C10_ExactlyThePrefixed ==
    /\ (op = "PrefixedEnvLoader.load" /\ arg.l # << >>)
          => /\ err = NoErr
             /\ DOMAIN ret = Matching(pre.env, arg.l)
             /\ \A K \in DOMAIN ret : ret[K] = pre.env[K]
    /\ (op = "load_prefixed_env_vars" /\ arg.l # << >> /\ pre.store = EmptyMap)
          => /\ err = NoErr
             /\ DOMAIN store = Matching(pre.env, arg.l)
             /\ \A K \in DOMAIN store : store[K] = pre.env[K]

(* a prefix occurs inside a key that does not begin with it, and the key   *)
(* is left out                                                             *)
C10_Witness ==
    /\ op = "PrefixedEnvLoader.load"
    /\ err = NoErr
    /\ \E K \in DOMAIN pre.env, i \in DOMAIN arg.l :
          /\ \E j \in 2..Len(K) : BeginsWith(SubSeq(K, j, Len(K)), arg.l[i])
          /\ K \notin DOMAIN ret

(* ---------------- C11 ---------------- *)

(* C11: load_prefixed_env_vars with no prefix list, or an empty one, fails *)
(* with TypeError and leaves the store (and the environment) as they were: *)
(* no environment key is added.                                            *)
C11_MissingPrefixList ==
    (op = "load_prefixed_env_vars" /\ arg.l = << >>)
        => /\ err = "TypeError"
           /\ store = pre.store
           /\ env = pre.env

(* the call was made while the environment held keys the store lacked *)
C11_Witness ==
    /\ op = "load_prefixed_env_vars"
    /\ arg.l = << >>
    /\ err = "TypeError"
    /\ \E K \in DOMAIN pre.env : K \notin DOMAIN store

(* ---------------- C12 ---------------- *)

(* C12, as stated: in every reachable state, construction included, every  *)
(* key of the store is in the environment with the text of its stored      *)
(* value.                                                                  *)
C12_StoreMirrored ==
    \A K \in DOMAIN store : K \in DOMAIN env /\ env[K] = Str(store[K])

(* ---------------- C13 ---------------- *)

LoadOps == ConfigOps \ {"setitem"}

(* C13: over any sequence of load calls, successful or failed, the store   *)
(* never loses a key: the keys after each call include the keys before it. *)
C13_KeysOnlyGrow ==
    op \in LoadOps => (DOMAIN pre.store) \subseteq (DOMAIN store)

(* a failed load on a store that held keys, which still added one *)
C13_Witness ==
    /\ op \in LoadOps
    /\ err # NoErr
    /\ pre.store # EmptyMap
    /\ (DOMAIN store) \ (DOMAIN pre.store) # {}

(* ---------------- C14 ---------------- *)

(* C14, as stated: when a document's first entry is K: ENV.<name>, with    *)
(* <name> a set variable and K a key not held yet, the variable looked up  *)
(* is <name>, the text after the four characters of the prefix: the load   *)
(* succeeds and K holds the value of <name>, in the Config as in the       *)
(* mapping YamlLoader.load returns.                                        *)
C14_ExactName ==
    (/\ op \in {"load_from_yaml_file", "YamlLoader.load"}
     /\ arg.l # << >>
     /\ IsEnvRef(arg.l[1][2])
     /\ AfterPrefix(arg.l[1][2].s, ENV_PREFIX) \in DOMAIN pre.env
     /\ arg.l[1][1] \notin (DOMAIN pre.store) \cup (DOMAIN pre.data))
        => LET K == arg.l[1][1]
               name == AfterPrefix(arg.l[1][2].s, ENV_PREFIX)
               held == IF op = "YamlLoader.load" THEN ret ELSE store
           IN  /\ err = NoErr
               /\ K \in DOMAIN held
               /\ held[K] = pre.env[name]

(* ---------------- C15 ---------------- *)

(* C15, as stated: a load_from_yaml_file call that fails while resolving   *)
(* the document (an unset variable, a malformed VAULT. value, a failing    *)
(* fetcher) leaves the store and the environment as they were before it.   *)
C15_FailedLoadLeavesNothing ==
    (op = "load_from_yaml_file" /\ err \notin {NoErr, "FileNotFoundError"})
        => /\ store = pre.store
           /\ env = pre.env

(* ---------------- C16 ---------------- *)

(* C16, as stated: after a successful load of a document (its keys free   *)
(* of dots) into an empty Config, or by a YamlLoader that holds nothing    *)
(* yet, the top-level keys of the result are the top-level keys of the     *)
(* document, and a top-level plain scalar key holds the document's own     *)
(* top-level value.                                                        *)
C16_NestedStayNested ==
    (/\ op \in {"load_from_yaml_file", "YamlLoader.load"}
     /\ err = NoErr
     /\ \A i \in DOMAIN arg.l : Len(Split(arg.l[i][1])) = 1
     /\ pre.store = EmptyMap
     /\ pre.data = EmptyMap)
        => LET held == IF op = "YamlLoader.load" THEN ret ELSE store
           IN  /\ DOMAIN held = {arg.l[i][1] : i \in DOMAIN arg.l}
               /\ \A i \in DOMAIN arg.l :
                     IsPlain(arg.l[i][2]) => held[arg.l[i][1]] = arg.l[i][2]

(* ---------------- C17 ---------------- *)

(* what a YamlLoader that holds nothing returns for the last call's        *)
(* document, under the environment and fetcher of that call                *)
FreshLoad ==
    YamlLoaderLoad([data |-> EmptyMap, env |-> pre.env,
                    calls |-> << >>, err |-> NoErr],
                   File(arg.l), arg.f).data

(* C17, as stated: a successful YamlLoader.load returns the mapping a      *)
(* fresh YamlLoader returns for the same document under the same           *)
(* environment and fetcher, whatever the instance loaded before.           *)
C17_LoadsIndependent ==
    (op = "YamlLoader.load" /\ err = NoErr) => ret = FreshLoad

====
